---------------------------- MODULE Spec2Model ----------------------------
(***************************************************************************)
(* A model of sentry's rule engine: the condition and action nodes of      *)
(* sentry/rules.py and the rule authoring view of                           *)
(* sentry/web/frontend/projects/rules.py.                                   *)
(*                                                                          *)
(* A Python string is a sequence of characters, so that prefix, suffix,    *)
(* substring, strip and regular expression tests are computed.  A          *)
(* character is a one-character string when it is printable ASCII or one   *)
(* of tab, line feed, carriage return and form feed ("\t", "\n", "\r",      *)
(* "\f"); any other character is the string of its Python escape, a        *)
(* backslash followed by xhh or uhhhh in lower case: U+000B is "\\x0b",     *)
(* U+00E9 is "\\xe9", U+2003 is "\\u2003".  Strings that the code only      *)
(* compares as a whole (class ids) are one-symbol sequences.  Python's     *)
(* None is the one-symbol sequence NoneValue, which no string equals.      *)
(* A Python dict with string keys is a function whose domain is the set of *)
(* keys present, each key a string as above.  A call's outcome is "True",  *)
(* "False", "None" or the name of the exception it raised.                 *)
(***************************************************************************)
EXTENDS Integers, Sequences, FiniteSets, TLC

VARIABLES
    event_tags,     \* event.get_tags(): a sequence of <<key, value>> pairs
    node_cls,       \* the class of the bound node (its id)
    node_data,      \* the bound node's self.data
    is_new,         \* lifecycle fact supplied by the caller
    is_regression,  \* lifecycle fact supplied by the caller
    call,           \* the method last called on the node
    result,         \* what that call returned or raised
    returned,       \* the event tags that before() returned
    notified,       \* number of notify(event) invocations made by after()
    rule,           \* the stored Rule: [label, data]
    outcome,        \* how the last create_or_edit_rule request ended
    errors,         \* validator.errors of the last request
    overrode,       \* the last request's POST replaced a stored parameter
    collided,       \* the last request's form data held two keys for one
                    \* parameter
    unknown_id      \* the last request's form data held an unregistered id

vars == <<event_tags, node_cls, node_data, is_new, is_regression, call,
          result, returned, notified, rule, outcome, errors, overrode, collided,
          unknown_id>>

evalVars == <<event_tags, node_cls, node_data, is_new, is_regression, call,
              result, returned, notified>>

editVars == <<rule, outcome, errors, overrode, collided, unknown_id>>

---------------------------------------------------------------------------
(* Python values *)

NoneValue == <<"<None>">>

EmptyDict == [n \in {} |-> NoneValue]

PyBool(b) == IF b THEN "True" ELSE "False"

\* t.startswith(v)
StartsWith(t, v) ==
    /\ Len(v) <= Len(t)
    /\ SubSeq(t, 1, Len(v)) = v

\* t.endswith(v)
EndsWith(t, v) ==
    /\ Len(v) <= Len(t)
    /\ SubSeq(t, Len(t) - Len(v) + 1, Len(t)) = v

\* v in t
Contains(v, t) ==
    \E i \in 0..(Len(t) - Len(v)) : SubSeq(t, i + 1, i + Len(v)) = v

---------------------------------------------------------------------------
(* sentry/rules.py *)

EQUAL == <<"e", "q">>
NOT_EQUAL == <<"n", "e">>
STARTS_WITH == <<"s", "w">>
ENDS_WITH == <<"e", "w">>
CONTAINS == <<"c", "o">>
NOT_CONTAINS == <<"n", "c">>

FirstSeenEventCondition == "sentry.rules.FirstSeenEventCondition"
RegressionEventCondition == "sentry.rules.RegressionEventCondition"
TaggedEventCondition == "sentry.rules.TaggedEventCondition"
NotifyEventAction == "sentry.rules.NotifyEventAction"

\* RULES['events']
RULES ==
    [actions |-> <<NotifyEventAction>>,
     conditions |-> <<FirstSeenEventCondition, RegressionEventCondition,
                      TaggedEventCondition>>]

\* The attributes a NotifyEventAction instance resolves: its own, those of
\* EventAction and those of RuleBase (with the metaclass's id).
NotifyEventActionAttrs ==
    {"label", "notify", "after", "passes",
     "before",
     "form_cls", "project", "data", "get_option", "render_label",
     "render_form", "validate_form", "id"}

\* The parameter names of the nodes: 'id', 'key', 'match', 'value'
IdName == <<"i", "d">>
KeyName == <<"k", "e", "y">>
MatchName == <<"m", "a", "t", "c", "h">>
ValueName == <<"v", "a", "l", "u", "e">>

\* RuleBase.get_option
get_option(data, key) ==
    IF key \in DOMAIN data THEN data[key] ELSE NoneValue

\* forms.CharField (required): the value is present and not empty
CharFieldValid(data, name) ==
    /\ get_option(data, name) # NoneValue
    /\ get_option(data, name) # <<>>

\* The choices of TaggedEventForm.match
MatchChoices ==
    {EQUAL, NOT_EQUAL, STARTS_WITH, ENDS_WITH, CONTAINS, NOT_CONTAINS}

\* TaggedEventForm(data).is_valid()
TaggedEventFormValid(data) ==
    /\ CharFieldValid(data, KeyName)
    /\ get_option(data, MatchName) \in MatchChoices
    /\ CharFieldValid(data, ValueName)

\* form_cls of a node class: only TaggedEventCondition sets one
HasFormCls(cls) == cls = TaggedEventCondition

\* RuleBase.validate_form
validate_form(cls, data) ==
    IF ~HasFormCls(cls) THEN TRUE ELSE TaggedEventFormValid(data)

\* tags = (v for k, v in event.get_tags() if k == key)
RECURSIVE TagValuesFor(_, _)
TagValuesFor(tags, key) ==
    IF tags = <<>> THEN <<>>
    ELSE IF Head(tags)[1] = key
         THEN <<Head(tags)[2]>> \o TagValuesFor(Tail(tags), key)
         ELSE TagValuesFor(Tail(tags), key)

\* match == MatchType.EQUAL
RECURSIVE LoopEqual(_, _)
LoopEqual(ts, value) ==
    IF ts = <<>> THEN "False"
    ELSE IF Head(ts) = value THEN "True"
         ELSE LoopEqual(Tail(ts), value)

\* A NOT_EQUAL loop that answers for the first tag only.
MutLoopNotEqual(ts, value) ==
    IF ts = <<>> THEN "True"
    ELSE IF Head(ts) = value THEN "False" ELSE "True"

\* match == MatchType.NOT_EQUAL
RECURSIVE LoopNotEqual(_, _)
LoopNotEqual(ts, value) ==
    IF ts = <<>> THEN "True"
    ELSE IF Head(ts) = value THEN "False"
         ELSE LoopNotEqual(Tail(ts), value)

\* A STARTS_WITH loop that tests the configured value against the tag
\* (value.startswith(t_value)) instead of the tag against the value.
RECURSIVE MutLoopStartsWith(_, _)
MutLoopStartsWith(ts, value) ==
    IF ts = <<>> THEN "False"
    ELSE IF value = NoneValue THEN "TypeError"
    ELSE IF StartsWith(value, Head(ts)) THEN "True"
         ELSE MutLoopStartsWith(Tail(ts), value)

\* match == MatchType.STARTS_WITH; str.startswith(None) raises TypeError
RECURSIVE LoopStartsWith(_, _)
LoopStartsWith(ts, value) ==
    IF ts = <<>> THEN "False"
    ELSE IF value = NoneValue THEN "TypeError"
    ELSE IF StartsWith(Head(ts), value) THEN "True"
         ELSE LoopStartsWith(Tail(ts), value)

\* match == MatchType.ENDS_WITH; str.endswith(None) raises TypeError
RECURSIVE LoopEndsWith(_, _)
LoopEndsWith(ts, value) ==
    IF ts = <<>> THEN "False"
    ELSE IF value = NoneValue THEN "TypeError"
    ELSE IF EndsWith(Head(ts), value) THEN "True"
         ELSE LoopEndsWith(Tail(ts), value)

\* match == MatchType.CONTAINS; (None in str) raises TypeError
RECURSIVE LoopContains(_, _)
LoopContains(ts, value) ==
    IF ts = <<>> THEN "False"
    ELSE IF value = NoneValue THEN "TypeError"
    ELSE IF Contains(value, Head(ts)) THEN "True"
         ELSE LoopContains(Tail(ts), value)

\* match == MatchType.NOT_CONTAINS
RECURSIVE LoopNotContains(_, _)
LoopNotContains(ts, value) ==
    IF ts = <<>> THEN "True"
    ELSE IF value = NoneValue THEN "TypeError"
    ELSE IF Contains(value, Head(ts)) THEN "False"
         ELSE LoopNotContains(Tail(ts), value)

\* TaggedEventCondition.passes; no branch taken returns None
TaggedPasses(tags, data) ==
    LET key == get_option(data, KeyName)
        match == get_option(data, MatchName)
        value == get_option(data, ValueName)
        ts == TagValuesFor(tags, key)
    IN  IF match = EQUAL THEN LoopEqual(ts, value)
        ELSE IF match = NOT_EQUAL THEN LoopNotEqual(ts, value)
        ELSE IF match = STARTS_WITH THEN LoopStartsWith(ts, value)
        ELSE IF match = ENDS_WITH THEN LoopEndsWith(ts, value)
        ELSE IF match = CONTAINS THEN LoopContains(ts, value)
        ELSE IF match = NOT_CONTAINS THEN LoopNotContains(ts, value)
        ELSE "None"

\* A first-seen condition that answers with the other lifecycle flag.
MutFirstSeenPasses(new, regression) == PyBool(regression)

\* FirstSeenEventCondition.passes
FirstSeenPasses(new, regression) == PyBool(new)

\* RegressionEventCondition.passes
RegressionPasses(new, regression) == PyBool(regression)

\* passes() of each registered class
passes(cls, data, tags, new, regression) ==
    IF cls = FirstSeenEventCondition THEN FirstSeenPasses(new, regression)
    ELSE IF cls = RegressionEventCondition THEN RegressionPasses(new, regression)
    ELSE IF cls = TaggedEventCondition THEN TaggedPasses(tags, data)
    ELSE "NotImplementedError"

\* EventAction.before: the event's tags as returned
before(tags) == tags

\* NotifyEventAction.after: self.should_notify is looked up first; the
\* lookup raises AttributeError when no class of the instance defines it.
\* should is the predicate's answer when it is defined.
NotifyAfter(attrs, should) ==
    IF "should_notify" \notin attrs THEN [raised |-> "AttributeError", notify |-> 0]
    ELSE IF should THEN [raised |-> "None", notify |-> 1]
         ELSE [raised |-> "None", notify |-> 0]

---------------------------------------------------------------------------
(* Evaluation of one bound node against one event *)

MaxTags == 2

LoggerKey == <<"l", "o", "g">>
OtherKey == <<"n", "o", "t", "l", "o", "g">>

TagKeys == {LoggerKey, OtherKey}

TagValues == {<<"a">>, <<"b">>, <<"a", "b">>, <<"b", "a">>, <<"b", "a", "b">>}

TagLists ==
    UNION {[1..n -> TagKeys \X TagValues] : n \in 0..MaxTags}

\* Absent marks a parameter the instance does not bind.
Absent == <<"<absent>">>

ConfigKeys == {LoggerKey, <<>>, Absent}

ConfigMatches == MatchChoices \cup {<<"x", "x">>, Absent}

ConfigValues == {<<"a">>, <<"a", "b">>, <<>>, Absent}

\* The dict binding the parameters that are not Absent
DataOf(k, m, v) ==
    LET given(x) == IF x = KeyName THEN k ELSE IF x = MatchName THEN m ELSE v
    IN  [n \in {x \in {KeyName, MatchName, ValueName} : given(x) # Absent}
            |-> given(n)]

TaggedData ==
    {DataOf(k, m, v) : k \in ConfigKeys, m \in ConfigMatches, v \in ConfigValues}

PlainData == {EmptyDict, DataOf(LoggerKey, EQUAL, <<"a">>)}

NodeClasses ==
    {FirstSeenEventCondition, RegressionEventCondition, TaggedEventCondition,
     NotifyEventAction}

\* Rule(project=project): a rule that is not stored yet.  rule.data is {},
\* so action_match reads as None and the node lists as empty.
NewRule ==
    [saved |-> FALSE, label |-> <<>>, action_match |-> NoneValue,
     conditions |-> <<>>, actions |-> <<>>]

EditIdle ==
    /\ rule = NewRule
    /\ outcome = "none"
    /\ errors = {}
    /\ overrode = FALSE
    /\ collided = FALSE
    /\ unknown_id = FALSE

InitEval ==
    /\ event_tags \in TagLists
    /\ node_cls \in NodeClasses
    /\ node_data \in (IF node_cls = TaggedEventCondition THEN TaggedData ELSE PlainData)
    /\ is_new \in BOOLEAN
    /\ is_regression \in BOOLEAN
    /\ call = "none"
    /\ result = "none"
    /\ returned = <<>>
    /\ notified = 0
    /\ EditIdle

\* node.passes(event, is_new=..., is_regression=...)
CallPasses ==
    /\ call = "none"
    /\ call' = "passes"
    /\ result' = passes(node_cls, node_data, event_tags, is_new, is_regression)
    /\ UNCHANGED <<event_tags, node_cls, node_data, is_new, is_regression,
                   returned, notified>>
    /\ UNCHANGED editVars

\* action.before(event)
CallBefore ==
    /\ call = "none"
    /\ node_cls = NotifyEventAction
    /\ call' = "before"
    /\ result' = "returned"
    /\ returned' = before(event_tags)
    /\ UNCHANGED <<event_tags, node_cls, node_data, is_new, is_regression,
                   notified>>
    /\ UNCHANGED editVars

\* action.after(event, is_new=..., is_regression=...)
CallAfter ==
    /\ call = "none"
    /\ node_cls = NotifyEventAction
    /\ \E should \in BOOLEAN :
         LET r == NotifyAfter(NotifyEventActionAttrs, should)
         IN  /\ call' = "after"
             /\ result' = r.raised
             /\ notified' = notified + r.notify
    /\ UNCHANGED <<event_tags, node_cls, node_data, is_new, is_regression,
                   returned>>
    /\ UNCHANGED editVars

NextEval == CallPasses \/ CallBefore \/ CallAfter

SpecEval == InitEval /\ [][NextEval]_vars

---------------------------------------------------------------------------
(* sentry/web/frontend/projects/rules.py *)

\* The label check of RuleFormValidator.cleaned_data
MaxLabelLen == 64

\* A form key.  The key 'condition[12][id]' is the record of "condition",
\* <<1, 2>>, <<"i", "d">> and <<>>: the text before the first bracket, the
\* decimal digits of the index, the text between the second opening bracket
\* and the last closing one, and the text after the last closing bracket.
\* 'label' and 'action_match' have no index, no name and no tail.
FormKey(kind, num, name, tail) ==
    [kind |-> kind, num |-> num, name |-> name, tail |-> tail]

LabelKey == FormKey("label", <<>>, <<>>, <<>>)
ActionMatchKey == FormKey("action_match", <<>>, <<>>, <<>>)

\* '%d' % (num,): the decimal digits of num
RECURSIVE ToDecimal(_)
ToDecimal(n) ==
    IF n < 10 THEN <<n>> ELSE ToDecimal(n \div 10) \o <<n % 10>>

\* The dict with the items of a set of <<key, value>> pairs
DictOf(pairs) ==
    [k \in {p[1] : p \in pairs} |-> (CHOOSE p \in pairs : p[1] = k)[2]]

\* dict.get(key, default)
DictGet(d, key, default) == IF key \in DOMAIN d THEN d[key] ELSE default

\* for key, value in over.iteritems(): base[key] = value
Update(base, over) ==
    [k \in DOMAIN base \cup DOMAIN over |->
        IF k \in DOMAIN over THEN over[k] ELSE base[k]]

\* The items prefix + '[' + key + ']' = value of a list of nodes under
\* enumerate()
NodeItems(kind, nodes) ==
    UNION {{<<FormKey(kind, ToDecimal(i - 1), name, <<>>), nodes[i][name]>> :
                name \in DOMAIN nodes[i]} : i \in DOMAIN nodes}

\* A form that is seeded with the label and the match policy only.
MutFormDataOf(r) ==
    DictOf({<<LabelKey, r.label>>, <<ActionMatchKey, r.action_match>>})

\* create_or_edit_rule: form_data as built from the stored rule
FormDataOf(r) ==
    DictOf({<<LabelKey, r.label>>, <<ActionMatchKey, r.action_match>>}
           \cup NodeItems("condition", r.conditions)
           \cup NodeItems("action", r.actions))

\* The one character that '$' lets follow the match: a final line feed
LineFeed == <<"\n">>

\* re.match(key_regexp, key): the kind is condition or action, the index
\* is one digit or more (\d+), the name is one character or more, none of
\* them a line feed (.+ without re.DOTALL), and the closing bracket ends the
\* key or stands before its final line feed ($ without re.MULTILINE)
KeyMatches(key) ==
    /\ key.kind \in {"condition", "action"}
    /\ key.num # <<>>
    /\ key.name # <<>>
    /\ \A i \in DOMAIN key.name : key.name[i] # "\n"
    /\ key.tail \in {<<>>, LineFeed}

\* The indexes of raw_data[kind]
RawNums(form, kind) ==
    {k.num : k \in {x \in DOMAIN form : KeyMatches(x) /\ x.kind = kind}}

\* The keys of the form that end in a line feed and whose groups are those
\* of another key of the form: both are assigned to the same
\* raw_data[kind][num][name]
Colliding(form) ==
    {k \in DOMAIN form :
        /\ KeyMatches(k)
        /\ k.tail = LineFeed
        /\ FormKey(k.kind, k.num, k.name, <<>>) \in DOMAIN form}

\* The key whose value raw_data[kind][num][name] keeps: of two keys with
\* the same groups, the one that self.data.iteritems() yields last.  A dict
\* iterates in arbitrary order; late is the set of colliding keys that come
\* after their twin.
Winner(form, kind, num, name, late) ==
    LET plain == FormKey(kind, num, name, <<>>)
        fed == FormKey(kind, num, name, LineFeed)
    IN  IF fed \in DOMAIN form /\ (plain \notin DOMAIN form \/ fed \in late)
        THEN fed ELSE plain

\* raw_data[kind][num]
RawNode(form, kind, num, late) ==
    [name \in {k.name : k \in {x \in DOMAIN form :
                                   KeyMatches(x) /\ x.kind = kind /\ x.num = num}}
        |-> form[Winner(form, kind, num, name, late)]]

\* Python's order of two strings: by the first character that differs, a
\* proper prefix first
RECURSIVE LexLess(_, _)
LexLess(a, b) ==
    IF a = <<>> THEN b # <<>>
    ELSE IF b = <<>> THEN FALSE
    ELSE IF Head(a) < Head(b) THEN TRUE
    ELSE IF Head(a) > Head(b) THEN FALSE
    ELSE LexLess(Tail(a), Tail(b))

\* sorted(raw_data[kind].iteritems()): the indexes in string order
RECURSIVE SortedNums(_)
SortedNums(S) ==
    IF S = {} THEN <<>>
    ELSE LET least == CHOOSE x \in S : \A y \in S \ {x} : LexLess(x, y)
         IN  <<least>> \o SortedNums(S \ {least})

\* The characters unicode.strip() removes: U+0009 to U+000D, U+001C to
\* U+001F, U+0020, U+0085, U+00A0, U+1680, U+180E, U+2000 to U+200A, U+2028,
\* U+2029, U+202F, U+205F and U+3000
Whitespace ==
    {"\t", "\n", "\\x0b", "\f", "\r",
     "\\x1c", "\\x1d", "\\x1e", "\\x1f", " ", "\\x85", "\\xa0",
     "\\u1680", "\\u180e",
     "\\u2000", "\\u2001", "\\u2002", "\\u2003", "\\u2004", "\\u2005",
     "\\u2006", "\\u2007", "\\u2008", "\\u2009", "\\u200a",
     "\\u2028", "\\u2029", "\\u202f", "\\u205f", "\\u3000"}

\* str.strip() of leading characters
RECURSIVE LStrip(_)
LStrip(s) ==
    IF s # <<>> /\ Head(s) \in Whitespace THEN LStrip(Tail(s)) ELSE s

\* str.strip() of trailing characters
RECURSIVE RStrip(_)
RStrip(s) ==
    IF s # <<>> /\ s[Len(s)] \in Whitespace
    THEN RStrip(SubSeq(s, 1, Len(s) - 1)) ELSE s

\* str.strip()
Strip(s) == RStrip(LStrip(s))

\* rules_by_id[kind + 's']
RulesById(kind) ==
    LET classes == IF kind = "condition" THEN RULES.conditions ELSE RULES.actions
    IN  {classes[i] : i \in DOMAIN classes}

\* node['id'] names a class of rules_by_id
Registered(kind, node) ==
    /\ IdName \in DOMAIN node
    /\ \E cls \in RulesById(kind) : node[IdName] = <<cls>>

\* The loops of cleaned_data over sorted(raw_data[kind].iteritems()): the
\* node is appended, then its class is looked up (KeyError when the node
\* has no id or the id is not registered), then its form is validated.
RECURSIVE NodeLoop(_, _, _, _, _)
NodeLoop(form, late, kind, nums, acc) ==
    IF nums = <<>> \/ acc.raised # "None" THEN acc
    ELSE LET num == Head(nums)
             node == RawNode(form, kind, num, late)
             nodes == Append(acc.nodes, node)
         IN  IF ~Registered(kind, node)
             THEN [acc EXCEPT !.nodes = nodes, !.raised = "KeyError"]
             ELSE LET cls == CHOOSE c \in RulesById(kind) : node[IdName] = <<c>>
                      errs == IF validate_form(cls, node) THEN acc.errors
                              ELSE acc.errors \cup {<<kind, num>>}
                  IN  NodeLoop(form, late, kind, Tail(nums),
                               [acc EXCEPT !.nodes = nodes, !.errors = errs])

\* The default of self.data.get('action_match', 'all')
DefaultMatch == <<"a", "l", "l">>

\* RuleFormValidator.cleaned_data and the errors it leaves in self.errors,
\* for self.data = form iterated with the colliding keys of late last
cleaned_data(form, late) ==
    LET label == DictGet(form, LabelKey, <<>>)
        start == [raised |-> "None", nodes |-> <<>>, errors |-> {}]
    IN  IF label = NoneValue
        THEN [raised |-> "AttributeError", errors |-> {}, label |-> <<>>,
              action_match |-> NoneValue, conditions |-> <<>>, actions |-> <<>>]
        ELSE LET conds == NodeLoop(form, late, "condition",
                                   SortedNums(RawNums(form, "condition")), start)
                 acts == NodeLoop(form, late, "action",
                                  SortedNums(RawNums(form, "action")),
                                  [start EXCEPT !.raised = conds.raised,
                                                !.errors = conds.errors])
                 stripped == Strip(label)
                 labelErr == IF acts.raised = "None"
                                /\ (stripped = <<>> \/ Len(stripped) > MaxLabelLen)
                             THEN {<<"label", <<>>>>} ELSE {}
             IN  [raised |-> acts.raised,
                  errors |-> acts.errors \cup labelErr,
                  label |-> stripped,
                  action_match |-> DictGet(form, ActionMatchKey, DefaultMatch),
                  conditions |-> conds.nodes,
                  actions |-> acts.nodes]

\* A view that saves whatever was posted.
MutShouldSave(post, cleaned) == post # EmptyDict

\* create_or_edit_rule: request.POST and validator.is_valid()
ShouldSave(post, cleaned) == post # EmptyDict /\ cleaned.errors = {}

\* Some instance of the form data has no id or an id that is not registered
HasUnknownId(form, late) ==
    \E kind \in {"condition", "action"} :
        \E num \in RawNums(form, kind) :
            ~Registered(kind, RawNode(form, kind, num, late))

EvalIdle ==
    /\ event_tags = <<>>
    /\ node_cls = FirstSeenEventCondition
    /\ node_data = EmptyDict
    /\ is_new = FALSE
    /\ is_regression = FALSE
    /\ call = "none"
    /\ result = "none"
    /\ returned = <<>>
    /\ notified = 0

InitEdit ==
    /\ rule = NewRule
    /\ outcome = "none"
    /\ errors = {}
    /\ overrode = FALSE
    /\ collided = FALSE
    /\ unknown_id = FALSE
    /\ EvalIdle

\* form_data as create_or_edit_rule hands it to the validator
FormData(r, post) == Update(FormDataOf(r), post)

\* A posted key gives raw_data a value where the stored rule had one
Overrides(stored, post, late) ==
    \E k \in DOMAIN post :
        /\ KeyMatches(k)
        /\ FormKey(k.kind, k.num, k.name, <<>>) \in DOMAIN stored
        /\ Winner(Update(stored, post), k.kind, k.num, k.name, late) = k

\* create_or_edit_rule(request, team, project, rule_id) with request.POST =
\* post, the validator iterating the colliding keys of late last
create_or_edit_rule(post, late) ==
    \E stored \in {FormDataOf(rule)} :
    \E form_data \in {Update(stored, post)} :
    \E cleaned \in {cleaned_data(form_data, late)} :
        /\ overrode' = Overrides(stored, post, late)
        /\ collided' = (Colliding(form_data) # {})
        /\ unknown_id' = HasUnknownId(form_data, late)
        /\ IF post = EmptyDict
           THEN /\ outcome' = "rendered"
                /\ errors' = {}
                /\ rule' = rule
           ELSE IF cleaned.raised # "None"
           THEN /\ outcome' = cleaned.raised
                /\ errors' = cleaned.errors
                /\ rule' = rule
           ELSE IF ShouldSave(post, cleaned)
           THEN /\ outcome' = "saved"
                /\ errors' = cleaned.errors
                /\ rule' = [saved |-> TRUE,
                            label |-> cleaned.label,
                            action_match |-> cleaned.action_match,
                            conditions |-> cleaned.conditions,
                            actions |-> cleaned.actions]
           ELSE /\ outcome' = "rendered"
                /\ errors' = cleaned.errors
                /\ rule' = rule
        /\ UNCHANGED evalVars

---------------------------------------------------------------------------
(* Requests to the authoring view *)

MaxIndex == 1

IdOf(cls) == <<cls>>

BogusId == <<"sentry.rules.NoSuchNode">>

\* The node dict binding the parameters that are not Absent
NodeOf(id, k, m, v) ==
    LET given(x) == IF x = IdName THEN id
                    ELSE IF x = KeyName THEN k
                    ELSE IF x = MatchName THEN m ELSE v
    IN  [n \in {x \in {IdName, KeyName, MatchName, ValueName} : given(x) # Absent}
            |-> given(n)]

\* A parameter name with a line feed in it: 'i\nd'
LineFeedName == <<"i", "\n", "d">>

AnyMatch == <<"a", "n", "y">>

BogusMatch == <<"b", "o", "t", "h">>

\* n times the character "a"
Chars(n) == [i \in 1..n |-> "a"]

\* Posted labels: Absent leaves the key out of the POST
PostLabels ==
    {Absent, <<"\t", "\\u2003">>,
     <<"\n", "\\xa0">> \o Chars(MaxLabelLen - 1) \o <<"\\xe9", " ">>,
     Chars(MaxLabelLen + 1)}

PostMatches == {AnyMatch, BogusMatch}

PostConditions ==
    {NodeOf(IdOf(FirstSeenEventCondition), Absent, Absent, Absent),
     NodeOf(IdOf(TaggedEventCondition), LoggerKey, EQUAL, <<"a">>),
     NodeOf(IdOf(TaggedEventCondition), <<>>, EQUAL, <<"a">>),
     NodeOf(BogusId, Absent, Absent, Absent),
     NodeOf(Absent, LoggerKey, Absent, Absent)}

PostActions ==
    {NodeOf(IdOf(NotifyEventAction), Absent, Absent, Absent),
     NodeOf(BogusId, Absent, Absent, Absent)}

PostNums == {ToDecimal(i) : i \in 0..MaxIndex}

\* The POST items of one posted node
PostNode(kind, num, node) ==
    {<<FormKey(kind, num, name, <<>>), node[name]>> : name \in DOMAIN node}

\* The POST items of a posted field, none for Absent
PostField(key, value) == IF value = Absent THEN {} ELSE {<<key, value>>}

\* The name and the tail of the posted keys with a line feed:
\* 'condition[0][i\nd]' and 'condition[0][id]\n'
LineFeedKeys == {<<LineFeedName, <<>> >>, <<IdName, LineFeed>>}

\* What a request posts besides the label: nothing, a match policy, one
\* condition instance at some index, the first action instance, or the id
\* of a condition under a key with a line feed
PostRest ==
    {{}}
    \cup {PostField(ActionMatchKey, m) : m \in PostMatches}
    \cup {PostNode("condition", n, c) : n \in PostNums, c \in PostConditions}
    \cup {PostNode("action", ToDecimal(0), a) : a \in PostActions}
    \cup {PostField(FormKey("condition", ToDecimal(0), pair[1], pair[2]),
                     IdOf(FirstSeenEventCondition)) : pair \in LineFeedKeys}

\* request.POST; the empty dict is a GET
Posts ==
    {DictOf(PostField(LabelKey, l) \cup rest) : l \in PostLabels, rest \in PostRest}

\* The orders in which the validator can iterate the colliding keys
Orders(post) == SUBSET Colliding(FormData(rule, post))

\* A GET of the form, or a POST of it
Request ==
    \E post \in Posts : \E late \in Orders(post) : create_or_edit_rule(post, late)

NextEdit == Request

SpecEdit == InitEdit /\ [][NextEdit]_vars

---------------------------------------------------------------------------
(* Rules with many conditions: created in one request, then edited *)

MaxConditions == 11

ShortLabel == <<"a">>

PlainConditions ==
    {NodeOf(IdOf(FirstSeenEventCondition), Absent, Absent, Absent),
     NodeOf(IdOf(RegressionEventCondition), Absent, Absent, Absent)}

\* The POST items of a list of condition instances, numbered from 0
ConditionItems(nodes) == NodeItems("condition", nodes)

\* A POST that names a label and n condition instances
NewRulePosts ==
    {DictOf({<<LabelKey, ShortLabel>>} \cup ConditionItems(nodes)
            \cup PostNode("action", ToDecimal(0),
                          NodeOf(IdOf(NotifyEventAction), Absent, Absent, Absent))) :
        nodes \in UNION {[1..n -> PlainConditions] : n \in 0..MaxConditions}}

\* A POST that names nothing but a label, and the GET
LabelPosts ==
    {DictOf(PostField(LabelKey, l)) : l \in {Absent, <<"\r", "\\x0b">>, <<"\\u3000", "b", "\\xe9", "\n">>}}

\* The first request: the rule is created
SubmitNew ==
    /\ ~rule.saved
    /\ \E post \in NewRulePosts : \E late \in Orders(post) :
         create_or_edit_rule(post, late)

\* A later request on the stored rule, which posts no instance
Resubmit ==
    /\ rule.saved
    /\ \E post \in LabelPosts : \E late \in Orders(post) :
         create_or_edit_rule(post, late)

NextRoundTrip == SubmitNew \/ Resubmit

SpecRoundTrip == InitEdit /\ [][NextRoundTrip]_vars

---------------------------------------------------------------------------
(* Properties *)

\* t starts with v: t is v followed by some rest of t
IsPrefixOf(v, t) == \E n \in 0..Len(t) : t = v \o SubSeq(t, n + 1, Len(t))

\* t ends with v: t is some start of t followed by v
IsSuffixOf(v, t) == \E n \in 0..Len(t) : t = SubSeq(t, 1, n) \o v

\* t contains v: t is some start of t, then v, then some rest of t
IsInfixOf(v, t) ==
    \E n \in 0..Len(t) : \E m \in n..Len(t) :
        t = SubSeq(t, 1, n) \o v \o SubSeq(t, m + 1, Len(t))

\* The relation a positive match type names
Satisfies(match, t, v) ==
    IF match = EQUAL THEN t = v
    ELSE IF match = STARTS_WITH THEN IsPrefixOf(v, t)
    ELSE IF match = ENDS_WITH THEN IsSuffixOf(v, t)
    ELSE IsInfixOf(v, t)

TaggedCalled ==
    /\ call = "passes"
    /\ node_cls = TaggedEventCondition

Configured(name) == name \in DOMAIN node_data

\* Some tag entry has the configured key
KeyPresent ==
    \E i \in DOMAIN event_tags : event_tags[i][1] = get_option(node_data, KeyName)

\* C1: with match EQUAL, STARTS_WITH, ENDS_WITH or CONTAINS and a configured
\* key and value, passes returns True if some tag entry has the configured
\* key and a value that equals / starts with / ends with / contains the
\* configured value, and returns False otherwise; so entries under other
\* keys do not count and without an entry of the key the result is False.
C1_PositiveMatch ==
    (/\ TaggedCalled
     /\ Configured(KeyName) /\ Configured(ValueName) /\ Configured(MatchName)
     /\ node_data[MatchName] \in {EQUAL, STARTS_WITH, ENDS_WITH, CONTAINS})
    => result = PyBool(\E i \in DOMAIN event_tags :
                          /\ event_tags[i][1] = node_data[KeyName]
                          /\ Satisfies(node_data[MatchName], event_tags[i][2],
                                       node_data[ValueName]))

\* C1 witness: STARTS_WITH passed on the second of two entries of the key,
\* whose first entry does not start with the value.
C1_Witness ==
    /\ TaggedCalled
    /\ Configured(KeyName) /\ Configured(ValueName) /\ Configured(MatchName)
    /\ node_data[MatchName] = STARTS_WITH
    /\ node_data[ValueName] = <<"a">>
    /\ Len(event_tags) = 2
    /\ event_tags[1] = <<LoggerKey, <<"b", "a">>>>
    /\ event_tags[2] = <<LoggerKey, <<"a", "b">>>>
    /\ result = "True"

Negation(r) ==
    IF r = "True" THEN "False" ELSE IF r = "False" THEN "True" ELSE "undefined"

\* C2: with a configured value, passes with NOT_EQUAL returns the negation
\* of what passes with EQUAL returns for the same tags, key and value,
\* NOT_CONTAINS the negation of CONTAINS, and both return True when no tag
\* entry has the key.
C2_Negations ==
    (TaggedCalled /\ Configured(ValueName) /\ Configured(MatchName)) =>
        /\ node_data[MatchName] = NOT_EQUAL =>
             result = Negation(TaggedPasses(event_tags,
                                            [node_data EXCEPT ![MatchName] = EQUAL]))
        /\ node_data[MatchName] = NOT_CONTAINS =>
             result = Negation(TaggedPasses(event_tags,
                                            [node_data EXCEPT ![MatchName] = CONTAINS]))
        /\ (node_data[MatchName] \in {NOT_EQUAL, NOT_CONTAINS} /\ ~KeyPresent) =>
             result = "True"

\* C2 witness: NOT_EQUAL failed on the second of two entries of the key.
C2_Witness ==
    /\ TaggedCalled
    /\ Configured(KeyName) /\ Configured(ValueName) /\ Configured(MatchName)
    /\ node_data[MatchName] = NOT_EQUAL
    /\ node_data[ValueName] = <<"a">>
    /\ Len(event_tags) = 2
    /\ event_tags[1] = <<LoggerKey, <<"b">>>>
    /\ event_tags[2] = <<LoggerKey, <<"a">>>>
    /\ result = "False"

\* C3: FirstSeenEventCondition.passes returns is_new and
\* RegressionEventCondition.passes returns is_regression, whatever the
\* event, the bound parameters and the other flag.
C3_LifecycleFlags ==
    call = "passes" =>
        /\ node_cls = FirstSeenEventCondition => result = PyBool(is_new)
        /\ node_cls = RegressionEventCondition => result = PyBool(is_regression)

\* C3 witness: a first-seen condition with bound parameters passed on a
\* tagged event that is new and no regression.
C3_Witness ==
    /\ call = "passes"
    /\ node_cls = FirstSeenEventCondition
    /\ node_data # EmptyDict
    /\ event_tags # <<>>
    /\ is_new /\ ~is_regression
    /\ result = "True"

\* C7: passes never returns True for an instance whose parameters fail
\* validate_form.
C7_FailClosed ==
    (call = "passes" /\ ~validate_form(node_cls, node_data)) => result # "True"

\* C8: after() completes without raising, having called notify when
\* should_notify holds and not otherwise; before() returns the event.
C8_NotifyCompletes ==
    /\ call = "after" => result = "None"
    /\ call = "before" => returned = event_tags

InstancesValid(kind, nodes) ==
    \A i \in DOMAIN nodes :
        /\ Registered(kind, nodes[i])
        /\ \A cls \in RulesById(kind) :
             nodes[i][IdName] = <<cls>> => validate_form(cls, nodes[i])

SavedRuleValid ==
    rule.saved =>
        /\ Strip(rule.label) # <<>>
        /\ Len(Strip(rule.label)) <= MaxLabelLen
        /\ InstancesValid("condition", rule.conditions)
        /\ InstancesValid("action", rule.actions)

\* C4: every saved rule has a label that is non-empty and at most 64
\* characters after stripping and only instances whose form validates; a
\* request whose validator reports an error does not save and leaves the
\* stored rule as it was.
C4_ValidationBlocksSave ==
    /\ []SavedRuleValid
    /\ [][errors' # {} => (outcome' # "saved" /\ rule' = rule)]_vars

\* C4 witness: a stored rule with a tagged condition, after a request that
\* the validator rejected.
C4_Witness ==
    /\ rule.saved
    /\ \E i \in DOMAIN rule.conditions :
         rule.conditions[i][IdName] = IdOf(TaggedEventCondition)
    /\ outcome = "rendered"
    /\ <<"label", <<>>>> \in errors
    /\ \E num \in PostNums : <<"condition", num>> \in errors

\* C5: a saved rule's match policy is 'all' or 'any'.
C5_MatchPolicy ==
    rule.saved => rule.action_match \in {DefaultMatch, AnyMatch}

\* C6: a request whose form data holds an instance with an unregistered or
\* missing id completes without an exception.
C6_UnknownIdSkipped ==
    unknown_id => outcome \in {"saved", "rendered"}

\* C9: parsing the form keys of a stored rule gives back its condition and
\* action instances, in the stored order.
C9_RoundTrip ==
    rule.saved =>
        LET cleaned == cleaned_data(FormDataOf(rule), {})
        IN  /\ cleaned.raised = "None"
            /\ cleaned.conditions = rule.conditions
            /\ cleaned.actions = rule.actions

\* C10: no request lowers the number of conditions or of actions of the
\* stored rule.
C10_NeverRemoves ==
    [][/\ Len(rule'.conditions) >= Len(rule.conditions)
       /\ Len(rule'.actions) >= Len(rule.actions)]_vars

\* C10 witness: a saving request whose posted key, ending in a line feed,
\* replaced a parameter of the stored rule, which keeps two conditions and
\* an action.
C10_Witness ==
    /\ outcome = "saved"
    /\ overrode
    /\ collided
    /\ Len(rule.conditions) >= 2
    /\ Len(rule.actions) >= 1

===========================================================================
